---- MODULE Spec2Model ----
(***************************************************************************)
(* Bet resolution engine of the PS3838 tracker: the polling loop of        *)
(* main.py, process_bet / get_game_data of services/bet_service.py, the    *)
(* provider calls of services/ps3838_service.py, the JSON files of         *)
(* utils/file_utils.py and services/team_normalization_service.py.         *)
(*                                                                         *)
(* Spec is the polling loop; CallSpec applies the start of main, the file  *)
(* functions, one settled poll and get_normalized_team to single inputs.   *)
(*                                                                         *)
(* Text (team names, league labels, cache keys, error messages) is a       *)
(* sequence of one-character strings, so that lower(), strip(),            *)
(* replace(' ', ''), the `in` substring test and f-string concatenation    *)
(* are computed as Python computes them.                                   *)
(***************************************************************************)
EXTENDS Integers, Sequences, FiniteSets, TLC

(***************************************************************************)
(* Bounds of the model                                                     *)
(***************************************************************************)
\* largest `last` cursor value a settled response carries
MaxCursor == 2
\* notifications handed to the sink are counted per bet up to this number
MaxCount == 2

(***************************************************************************)
(* Python string operations                                                *)
(***************************************************************************)
UpperChars ==
    <<"A", "B", "C", "D", "E", "F", "G", "H", "I", "J", "K", "L", "M",
      "N", "O", "P", "Q", "R", "S", "T", "U", "V", "W", "X", "Y", "Z">>
LowerChars ==
    <<"a", "b", "c", "d", "e", "f", "g", "h", "i", "j", "k", "l", "m",
      "n", "o", "p", "q", "r", "s", "t", "u", "v", "w", "x", "y", "z">>
DigitChars == <<"0", "1", "2", "3", "4", "5", "6", "7", "8", "9">>

\* set(list) of a sequence
Range(s) == {s[i] : i \in 1..Len(s)}

OtherChars == {" ", "_", ".", ":", "-", "+"}
Chars == Range(UpperChars) \cup Range(LowerChars) \cup Range(DigitChars)
             \cup OtherChars

LowerChar ==
    [c \in Chars |->
        IF c \in Range(UpperChars)
        THEN LowerChars[CHOOSE i \in 1..Len(UpperChars) : UpperChars[i] = c]
        ELSE c]

UpperChar ==
    [c \in Chars |->
        IF c \in Range(LowerChars)
        THEN UpperChars[CHOOSE i \in 1..Len(LowerChars) : LowerChars[i] = c]
        ELSE c]

\* str.lower()
Lower(s) == [i \in 1..Len(s) |-> LowerChar[s[i]]]

\* str.upper()
Upper(s) == [i \in 1..Len(s) |-> UpperChar[s[i]]]

\* str.strip()
RECURSIVE Strip(_)
Strip(s) ==
    IF s = <<>> THEN s
    ELSE IF Head(s) = " " THEN Strip(Tail(s))
    ELSE IF s[Len(s)] = " " THEN Strip(SubSeq(s, 1, Len(s) - 1))
    ELSE s

\* str.replace(' ', '')
RemoveSpaces(s) == SelectSeq(s, LAMBDA c : c # " ")

\* needle in hay
Contains(hay, needle) ==
    \E i \in 0..(Len(hay) - Len(needle)) :
        SubSeq(hay, i + 1, i + Len(needle)) = needle

\* str(n) of a non-negative integer
RECURSIVE Digits(_)
Digits(n) ==
    IF n < 10 THEN <<DigitChars[n + 1]>>
    ELSE Digits(n \div 10) \o <<DigitChars[(n % 10) + 1]>>

\* an assignment that drops the other keys
PutOnly(d, k, v) == (k :> v)

\* d[k] = v on a dict held as a function
Put(d, k, v) == (k :> v) @@ d

\* the orders in which a set can be iterated
Orders(S) ==
    {q \in [1..Cardinality(S) -> S] : Range(q) = S}

(***************************************************************************)
(* JSON files: json.dump(data, f, indent=4) and json.load(f)                *)
(***************************************************************************)
EmptyDict == [k \in {} |-> 0]

\* a JSON value, tagged with its Python type: <<"int", n>>, <<"str", text>>,
\* <<"obj", mapping>>, <<"arr", sequence>>; None is what load_json_file
\* returns instead of a value
IntTok(n) == <<"int", n>>
StrTok(s) == <<"str", s>>
ObjTok(m) == <<"obj", m>>
ArrTok(a) == <<"arr", a>>
None == <<"null", 0>>

Quote == <<"\"">>

\* the item separator and indentation json.dump writes with indent=4
NewlineIndent == <<"\n", " ", " ", " ", " ">>

\* a number written as a string
json_value_quoted(v) ==
    IF v[1] = "int" THEN Quote \o Digits(v[2]) \o Quote
    ELSE Quote \o v[2] \o Quote

\* the text json.dump writes for a value of a mapping: an int or a str
json_value(v) ==
    IF v[1] = "int" THEN Digits(v[2])
    ELSE Quote \o v[2] \o Quote

\* the members of a mapping, in the order of the dict
RECURSIVE json_members(_, _)
json_members(m, order) ==
    IF order = <<>> THEN <<>>
    ELSE NewlineIndent \o Quote \o Head(order) \o Quote \o <<":", " ">>
             \o json_value(m[Head(order)])
             \o (IF Len(order) > 1 THEN <<",">> ELSE <<>>)
             \o json_members(m, Tail(order))

\* json.dump(data, f, indent=4) for a mapping whose keys are in this order
json_dump(m, order) ==
    IF order = <<>> THEN <<"{", "}">>
    ELSE <<"{">> \o json_members(m, order) \o <<"\n", "}">>

IsSpace(c) == c \in {" ", "\n"}
IsDigit(c) == \E i \in 1..Len(DigitChars) : DigitChars[i] = c
DigitValue(c) == (CHOOSE i \in 1..Len(DigitChars) : DigitChars[i] = c) - 1

RECURSIVE SkipSpace(_)
SkipSpace(s) ==
    IF s # <<>> /\ IsSpace(Head(s)) THEN SkipSpace(Tail(s)) ELSE s

\* the decoder's result: ok = FALSE is a JSONDecodeError
ParseFail == [ok |-> FALSE, value |-> None, rest |-> <<>>]
Parsed(v, rest) == [ok |-> TRUE, value |-> v, rest |-> rest]

RECURSIVE ParseDigits(_, _)
ParseDigits(s, acc) ==
    IF s # <<>> /\ IsDigit(Head(s))
    THEN ParseDigits(Tail(s), 10 * acc + DigitValue(Head(s)))
    ELSE Parsed(IntTok(acc), s)

\* a number: one digit, or digits that do not start with 0
ParseNumber(s) ==
    IF Head(s) = "0" /\ Len(s) > 1 /\ IsDigit(s[2]) THEN ParseFail
    ELSE ParseDigits(s, 0)

\* the characters after an opening quote, to the closing one
RECURSIVE ParseString(_, _)
ParseString(s, acc) ==
    IF s = <<>> \/ Head(s) = "\n" THEN ParseFail
    ELSE IF Head(s) = "\"" THEN Parsed(StrTok(acc), Tail(s))
    ELSE ParseString(Tail(s), Append(acc, Head(s)))

RECURSIVE ParseValue(_)
RECURSIVE ParseMembers(_, _)
RECURSIVE ParseElements(_, _)

\* after "{" or ",": "key": value, then "," or "}"; a repeated key keeps
\* the later value
ParseMembers(s0, acc) ==
    LET s == SkipSpace(s0) IN
    IF s = <<>> \/ Head(s) # "\"" THEN ParseFail
    ELSE LET k == ParseString(Tail(s), <<>>) IN
         IF ~k.ok THEN ParseFail
         ELSE LET c == SkipSpace(k.rest) IN
              IF c = <<>> \/ Head(c) # ":" THEN ParseFail
              ELSE LET v == ParseValue(Tail(c)) IN
                   IF ~v.ok THEN ParseFail
                   ELSE LET t == SkipSpace(v.rest)
                            acc2 == Put(acc, k.value[2], v.value)
                        IN IF t = <<>> THEN ParseFail
                           ELSE IF Head(t) = "}"
                           THEN Parsed(ObjTok(acc2), Tail(t))
                           ELSE IF Head(t) = ","
                           THEN ParseMembers(Tail(t), acc2)
                           ELSE ParseFail

\* after "[" or ",": value, then "," or "]"
ParseElements(s0, acc) ==
    LET v == ParseValue(s0) IN
    IF ~v.ok THEN ParseFail
    ELSE LET t == SkipSpace(v.rest)
             acc2 == Append(acc, v.value)
         IN IF t = <<>> THEN ParseFail
            ELSE IF Head(t) = "]" THEN Parsed(ArrTok(acc2), Tail(t))
            ELSE IF Head(t) = "," THEN ParseElements(Tail(t), acc2)
            ELSE ParseFail

ParseValue(s0) ==
    LET s == SkipSpace(s0) IN
    IF s = <<>> THEN ParseFail
    ELSE IF Head(s) = "{"
    THEN LET t == SkipSpace(Tail(s)) IN
         IF t # <<>> /\ Head(t) = "}" THEN Parsed(ObjTok(EmptyDict), Tail(t))
         ELSE ParseMembers(t, EmptyDict)
    ELSE IF Head(s) = "["
    THEN LET t == SkipSpace(Tail(s)) IN
         IF t # <<>> /\ Head(t) = "]" THEN Parsed(ArrTok(<<>>), Tail(t))
         ELSE ParseElements(t, <<>>)
    ELSE IF Head(s) = "\"" THEN ParseString(Tail(s), <<>>)
    ELSE IF IsDigit(Head(s)) THEN ParseNumber(s)
    ELSE ParseFail

\* json.load(f): one value and nothing but white space after it
json_load(text) ==
    LET r == ParseValue(text) IN
    IF r.ok /\ SkipSpace(r.rest) = <<>> THEN Parsed(r.value, <<>>)
    ELSE ParseFail

\* a file of the data directory
MissingFile == [exists |-> FALSE, text |-> <<>>]
FileOf(text) == [exists |-> TRUE, text |-> text]

(***************************************************************************)
(* Texts                                                                   *)
(***************************************************************************)
Basketball == <<"B", "a", "s", "k", "e", "t", "b", "a", "l", "l">>
NBA == <<"N", "B", "A">>
NCAAB == <<"N", "C", "A", "A", "B">>
NCAA == <<"N", "C", "A", "A">>
NCAAWomen == <<"N", "C", "A", "A", " ", "W", "o", "m", "e", "n">>
Warriors == <<"w", "a", "r", "r", "i", "o", "r", "s">>
Lakers == <<"l", "a", "k", "e", "r", "s">>
Duke == <<"d", "u", "k", "e">>
Unc == <<"u", "n", "c">>
Dubs == <<"d", "u", "b", "s">>
GoldenStateWarriors ==
    <<"G", "o", "l", "d", "e", "n", " ", "S", "t", "a", "t", "e", " ",
      "W", "a", "r", "r", "i", "o", "r", "s">>
LosAngelesLakers ==
    <<"L", "o", "s", " ", "A", "n", "g", "e", "l", "e", "s", " ",
      "L", "a", "k", "e", "r", "s">>
DukeFull == <<"D", "u", "k", "e">>
NorthCarolina ==
    <<"N", "o", "r", "t", "h", " ", "C", "a", "r", "o", "l", "i", "n", "a">>
BetPrefix == <<"b", "e", "t", "_">>
Underscore == <<"_">>

MsgNoTeams ==
    <<"N", "o", " ", "h", "a", "y", " ", "e", "q", "u", "i", "p", "o", "s",
      " ", "p", "a", "r", "a", " ", "b", "u", "s", "c", "a", "r", " ", "e",
      "l", " ", "p", "a", "r", "t", "i", "d", "o", ".">>
MsgNoMatch ==
    <<"P", "a", "r", "t", "i", "d", "o", " ", "n", "o", " ", "e", "n", "c",
      "o", "n", "t", "r", "a", "d", "o", " ", "e", "n", " ", "f", "i", "x",
      "t", "u", "r", "e", "s", " ", "n", "i", " ", "e", "n", " ", "l", "a",
      " ", "c", "a", "c", "h", "e", ".">>
MsgSettledPre ==
    <<"P", "a", "r", "t", "i", "d", "o", " ", "c", "o", "n", " ", "I", "D", " ">>
MsgSettledPost ==
    <<" ", "n", "o", " ", "e", "n", "c", "o", "n", "t", "r", "a", "d", "o",
      " ", "e", "n", " ", "s", "e", "t", "t", "l", "e", "d", ".">>
MsgConnection ==
    <<"E", "r", "r", "o", "r", " ", "d", "e", " ", "c", "o", "n", "e", "x",
      "i", "o", "n", ":", " ", "t", "i", "m", "e", "o", "u", "t">>
NotFoundYetPhrase ==
    <<"n", "o", "t", " ", "f", "o", "u", "n", "d", " ", "i", "n", " ", "s",
      "e", "t", "t", "l", "e", "d", " ", "y", "e", "t">>

(***************************************************************************)
(* Configuration and data files                                            *)
(***************************************************************************)
MAX_CONSECUTIVE_ERRORS == 5

\* LEAGUE_MAPPING.get(league.upper(), league)
LEAGUE_MAPPING(league) == IF Upper(league) = NCAAB THEN NCAA ELSE league

NCAA_LEAGUES ==
    {NCAAB, NCAA \o <<" ">> \o Upper(Basketball), NCAA,
     NCAA \o <<" ", "F", "O", "O", "T", "B", "A", "L", "L">>,
     NCAA \o <<"F">>}

\* data/sports_ps3838.json, the provider's sport list ({"Basketball": 4})
SportsFile == (Basketball :> 4)

\* the alias tables of the teams module
nba_teams == (Dubs :> Warriors)
ncaa_basketball_teams ==
    (Unc :> Unc) @@ (<<"z", "a", "g", "s">> :> <<"g", "o", "n", "z", "a", "g", "a">>)
EmptyTable == [k \in {} |-> <<>>]

nfl_teams == (<<"p", "a", "t", "s">> :> <<"p", "a", "t", "r", "i", "o", "t", "s">>)
cfl_teams_dict == (<<"a", "r", "g", "o", "s">> :> <<"a", "r", "g", "o", "n", "a", "u", "t", "s">>)
ncaa_football_teams == (<<"b", "a", "m", "a">> :> <<"a", "l", "a", "b", "a", "m", "a">>)
mlb_teams == (<<"n", "y", "y">> :> <<"y", "a", "n", "k", "e", "e", "s">>)
wnba_teams == (<<"a", "c", "e", "s">> :> <<"a", "c", "e", "s">>)
nhl_teams == (<<"h", "a", "b", "s">> :> <<"c", "a", "n", "a", "d", "i", "e", "n", "s">>)

get_team_dictionary(sport) ==
    LET s == Strip(Lower(sport)) IN
    IF s = <<"n", "f", "l">> THEN nfl_teams
    ELSE IF s = Lower(NBA) THEN nba_teams
    ELSE IF s = <<"c", "f", "l">> THEN cfl_teams_dict
    ELSE IF s = <<"n", "c", "a", "a", "f">> THEN ncaa_football_teams
    ELSE IF s \in {Lower(NCAAB), <<"n", "c", "a", "a", "m">>}
         THEN ncaa_basketball_teams
    ELSE IF s = <<"m", "l", "b">> THEN mlb_teams
    ELSE IF s = <<"w", "n", "b", "a">> THEN wnba_teams
    ELSE IF s = <<"n", "h", "l">> THEN nhl_teams
    ELSE EmptyTable

\* the lookup on the lower-cased name, surrounding spaces kept
get_normalized_team_unstripped(team_name, league) ==
    IF team_name = <<>> THEN <<>>
    ELSE LET dictionary == get_team_dictionary(league)
             k == Lower(team_name)
         IN IF k \in DOMAIN dictionary THEN dictionary[k] ELSE team_name

get_normalized_team(team_name, league) ==
    IF team_name = <<>> THEN <<>>
    ELSE LET dictionary == get_team_dictionary(league)
             k == Strip(Lower(team_name))
         IN IF k \in DOMAIN dictionary THEN dictionary[k] ELSE team_name

\* re.search(r'^([a-z]+)', the_bet): the leading run of lower-case letters
RECURSIVE LeadingLetters(_)
LeadingLetters(s) ==
    IF s = <<>> \/ ~(\E i \in 1..Len(LowerChars) : LowerChars[i] = Head(s))
    THEN <<>>
    ELSE <<Head(s)>> \o LeadingLetters(Tail(s))

extract_team_names_from_bet(the_bet, league) ==
    LET b == Strip(Lower(the_bet))
        extracted == LeadingLetters(b)
    IN IF b = <<>> \/ extracted = <<>> THEN <<>>
       ELSE LET normalized == get_normalized_team(extracted, league)
            IN IF normalized # <<>> THEN <<normalized>> ELSE <<extracted>>

\* the record main() hands to process_bet for a record of the bet source
map_bet_info(bet_record) ==
    LET sport == Strip(bet_record.sport)
        league == Strip(bet_record.league)
        visitor == Lower(Strip(bet_record.visitor))
        home == Lower(Strip(bet_record.home))
    IN [id |-> bet_record.id,
        sport |-> sport,
        league |-> LEAGUE_MAPPING(league),
        original_league |-> league,
        visitor |-> get_normalized_team(visitor, league),
        home |-> get_normalized_team(home, league),
        the_bet |-> Lower(bet_record.the_bet)]

\* a load that closes a list that was cut short
load_json_file_lenient(file) ==
    IF ~file.exists THEN None
    ELSE LET r == json_load(file.text)
             r2 == json_load(file.text \o <<"\n", "]">>)
         IN IF r.ok THEN r.value ELSE IF r2.ok THEN r2.value ELSE None

\* load_json_file(filepath): the value of the file, None when the file is
\* missing or json.load raises
load_json_file(file) ==
    IF ~file.exists THEN None
    ELSE LET r == json_load(file.text) IN
         IF r.ok THEN r.value ELSE None

\* the truth value Python gives a loaded value in `x or {}`
Falsy(v) ==
    \/ v[1] = "null"
    \/ v[1] = "int" /\ v[2] = 0
    \/ v[1] = "str" /\ v[2] = <<>>
    \/ v[1] = "arr" /\ v[2] = <<>>
    \/ v[1] = "obj" /\ DOMAIN v[2] = {}

\* a start that ignores the file
load_or_empty_fresh(file) == ObjTok(EmptyDict)

\* main.py lines 39-40: load_json_file(FILE) or {}
load_or_empty(file) ==
    LET v == load_json_file(file) IN
    IF Falsy(v) THEN ObjTok(EmptyDict) ELSE v

\* the file save_json_file leaves when the dict holds its keys in this order
written_file(m, order) == FileOf(json_dump(m, order))

\* a save that leaves the file as it was
save_json_file_unwritten(file, data) == file

\* the contents of a file after save_json_file(filepath, data), held as the
\* mapping it was written from
save_json_file(file, data) == data

get_sport_id(sport_name) ==
    IF sport_name \in DOMAIN SportsFile THEN SportsFile[sport_name] ELSE 0

(***************************************************************************)
(* The bet source and the provider                                         *)
(***************************************************************************)
Bet1 == [id |-> 1, sport |-> Basketball, league |-> NBA,
         visitor |-> Warriors, home |-> Lakers, the_bet |-> <<>>]
Bet2 == [id |-> 2, sport |-> Basketball, league |-> NCAAB,
         visitor |-> Duke, home |-> Unc, the_bet |-> <<>>]
\* a record without team names
Bet3 == [id |-> 3, sport |-> Basketball, league |-> NBA,
         visitor |-> <<>>, home |-> <<>>, the_bet |-> <<>>]
\* a record that spells the teams as the provider does
Bet4 == [id |-> 4, sport |-> Basketball, league |-> NBA,
         visitor |-> GoldenStateWarriors, home |-> LosAngelesLakers,
         the_bet |-> <<>>]
\* a record whose id starts with the id of Bet1
Bet10 == [id |-> 10, sport |-> Basketball, league |-> NCAAB,
          visitor |-> Duke, home |-> Unc, the_bet |-> <<>>]
\* the bets whose messages are counted
BetIds == {Bet1.id, Bet2.id}

\* what load_json_file(JSON_INPUT_FILE) can return: None, or the list
NoFile == [ok |-> FALSE, data |-> <<>>]

\* the columns of a bet record that the engine reads, in the order the
\* producer selects them (send_requests.py, line 39)
BetFields ==
    << <<"i", "d">>, <<"s", "p", "o", "r", "t">>,
       <<"l", "e", "a", "g", "u", "e">>, <<"t", "h", "e", "_", "b", "e", "t">>,
       <<"v", "i", "s", "i", "t", "o", "r">>, <<"h", "o", "m", "e">> >>

bet_field(b, i) ==
    CASE i = 1 -> IntTok(b.id)
      [] i = 2 -> StrTok(b.sport)
      [] i = 3 -> StrTok(b.league)
      [] i = 4 -> StrTok(b.the_bet)
      [] i = 5 -> StrTok(b.visitor)
      [] i = 6 -> StrTok(b.home)

\* the members of one record, from column i on, at the second indent level
RECURSIVE json_record_members(_, _)
json_record_members(b, i) ==
    IF i > Len(BetFields) THEN <<>>
    ELSE NewlineIndent \o <<" ", " ", " ", " ">> \o Quote \o BetFields[i]
             \o Quote \o <<":", " ">> \o json_value(bet_field(b, i))
             \o (IF i < Len(BetFields) THEN <<",">> ELSE <<>>)
             \o json_record_members(b, i + 1)

RECURSIVE json_records(_)
json_records(bets) ==
    IF bets = <<>> THEN <<>>
    ELSE NewlineIndent \o <<"{">> \o json_record_members(Head(bets), 1)
             \o NewlineIndent \o <<"}">>
             \o (IF Len(bets) > 1 THEN <<",">> ELSE <<>>)
             \o json_records(Tail(bets))

\* save_to_json of the producer: json.dump(data, json_file, indent=4) for a
\* list of records
json_dump_list(bets) ==
    IF bets = <<>> THEN <<"[", "]">>
    ELSE <<"[">> \o json_records(bets) \o <<"\n", "]">>

\* the lists of bets the producer writes, and the empty list
SourceLists == {<<>>, <<Bet1, Bet2>>, <<Bet3>>}

\* the bet-source file after a write of the producer ended
CompleteFiles == {FileOf(json_dump_list(l)) : l \in SourceLists}

\* the lengths at which a read can find the file while the producer writes
\* the text t (open(..., 'w') truncates it, json.dump fills it): nothing
\* yet, or the text up to a bracket, a brace, a comma or a colon
Cuts(t) ==
    {n \in 0..(Len(t) - 1) : n = 0 \/ t[n] \in {"[", "{", "}", ",", ":"}}

\* the bet-source file when it holds no complete list: absent, empty, or
\* cut short: at every length for the one-record list, at the lengths of
\* Cuts for the two-record list
IncompleteFiles ==
    {MissingFile}
        \cup {FileOf(SubSeq(json_dump_list(<<Bet3>>), 1, n)) :
                 n \in 0..(Len(json_dump_list(<<Bet3>>)) - 1)}
        \cup {FileOf(SubSeq(json_dump_list(<<Bet1, Bet2>>), 1, n)) :
                 n \in Cuts(json_dump_list(<<Bet1, Bet2>>))}

SourceFiles == CompleteFiles \cup IncompleteFiles

\* bet_record.get(...) of map_bet_info on a loaded record
record_of(m) ==
    [id |-> m[BetFields[1]][2], sport |-> m[BetFields[2]][2],
     league |-> m[BetFields[3]][2], the_bet |-> m[BetFields[4]][2],
     visitor |-> m[BetFields[5]][2], home |-> m[BetFields[6]][2]]

\* line 47 of main: bets_data = load_json_file(JSON_INPUT_FILE)
read_source(file) ==
    LET v == load_json_file(file) IN
    IF v[1] = "arr"
    THEN [ok |-> TRUE, data |-> [i \in 1..Len(v[2]) |-> record_of(v[2][i][2])]]
    ELSE NoFile

\* what the cycles can load from the bet source
SourceContents == {read_source(f) : f \in SourceFiles}

\* what the cycles load from a bet source that holds no complete list
IncompleteReads == {read_source(f) : f \in IncompleteFiles}

\* the fixtures the provider knows, in the order of its response
FixtureLeagues ==
    << [name |-> NBA,
        events |-> << [id |-> 501, home |-> LosAngelesLakers,
                       away |-> GoldenStateWarriors],
                      [id |-> 502, home |-> GoldenStateWarriors,
                       away |-> LosAngelesLakers] >>],
       [name |-> NCAAWomen,
        events |-> << [id |-> 601, home |-> NorthCarolina,
                       away |-> DukeFull] >>] >>

EventIds ==
    UNION {{FixtureLeagues[i].events[j].id :
                j \in 1..Len(FixtureLeagues[i].events)} :
           i \in 1..Len(FixtureLeagues)}

\* the events that conclude while the engine runs, and those among them the
\* provider first reports without periods
SettlingEvents == {501, 601}
PartialEvents == {501}

\* the periods the provider reports for an event of settlement status st
PeriodsOf(st) ==
    IF st = "full"
    THEN << [number |-> 0, team1Score |-> 110, team2Score |-> 115] >>
    ELSE <<>>

\* cursor values, tagged with their JSON type; the provider of the model
\* sends numbers
NoLast == <<"none", 0>>
LastValues == {IntTok(n) : n \in 1..MaxCursor}

\* the cursor position at which the provider lists each event as settled
EventPosition == [e \in EventIds |-> IF e = 601 THEN MaxCursor ELSE 1]

\* the events of the settled page answered to a request with this `since`:
\* the settled events listed after that position
settled_page(since, st, pos) ==
    {e \in EventIds : st[e] # "absent" /\ pos[e] > since}

\* what the settled endpoint can answer to one request: a body with or
\* without `last`, a failed request (timeout, connection error, error
\* status: all RequestException), or a JSON body that is not an object
SettledResponses ==
    {[mode |-> "ok", last |-> l] : l \in LastValues \cup {NoLast}}
        \cup {[mode |-> "request_error", last |-> NoLast],
              [mode |-> "bad_shape", last |-> NoLast]}

\* the sets of fixtures a fixtures body lists: none, all, and all but the
\* first game
Listings == {{}, EventIds \ {501}, EventIds}

\* what the fixtures endpoint can answer: a body listing some of the
\* fixtures, a failure (timeout, connection error, status other than 200
\* such as 429, empty or unparseable body), or a JSON body that is not an
\* object
FixturesResponses ==
    {[mode |-> "ok", listed |-> L] : L \in Listings}
        \cup {[mode |-> "request_error", listed |-> {}],
              [mode |-> "bad_shape", listed |-> {}]}

(***************************************************************************)
(* services/ps3838_service.py                                              *)
(***************************************************************************)
\* the `since` parameter asked with the stored cursor
settled_request_since_cursor(since_value) == since_value[2]

\* line 43: the `since` parameter of the request
settled_request_since(since_value) == 0

\* raised = TRUE: an exception left the function
\* search_in_settled(..., sport_id, ..., last_values_cache, ..., game_id)
\* answered by resp, the settled events being st (event id -> status)
search_in_settled(sport_id, lv, dlv, resp, st, game_id) ==
    LET sport_key == Digits(sport_id)
        since_value == IF sport_key \in DOMAIN lv THEN lv[sport_key]
                       ELSE IntTok(0)
    IN IF since_value[1] = "str"
       THEN \* since_value < 0 on a str: TypeError, not a RequestException
            [raised |-> TRUE, result |-> [error |-> <<>>], lv |-> lv, dlv |-> dlv]
       ELSE IF resp.mode = "request_error"
       THEN [raised |-> FALSE, result |-> [error |-> MsgConnection],
             lv |-> lv, dlv |-> dlv]
       ELSE IF resp.mode = "bad_shape"
       THEN \* data.get on a list: AttributeError
            [raised |-> TRUE, result |-> [error |-> <<>>], lv |-> lv, dlv |-> dlv]
       ELSE LET lv2 == IF resp.last # NoLast THEN Put(lv, sport_key, resp.last)
                       ELSE lv
                dlv2 == IF resp.last # NoLast THEN save_json_file(dlv, lv2)
                        ELSE dlv
                page == settled_page(settled_request_since(since_value), st,
                                     EventPosition)
            IN IF game_id \in page
               THEN [raised |-> FALSE,
                     result |-> [id |-> game_id, periods |-> PeriodsOf(st[game_id])],
                     lv |-> lv2, dlv |-> dlv2]
               ELSE [raised |-> FALSE,
                     result |-> [error |-> MsgSettledPre \o Digits(game_id)
                                              \o MsgSettledPost],
                     lv |-> lv2, dlv |-> dlv2]

\* the response body for a listing: the leagues with their listed events
ListedLeagues(listed) ==
    [i \in 1..Len(FixtureLeagues) |->
        [name |-> FixtureLeagues[i].name,
         events |-> SelectSeq(FixtureLeagues[i].events,
                              LAMBDA e : e.id \in listed)]]

\* get_fixtures(..., sport_id, league_ids) answered by resp
get_fixtures(sport_id, resp) ==
    IF sport_id <= 0 THEN [error |-> <<>>]
    ELSE IF resp.mode = "request_error" THEN [error |-> MsgConnection]
    ELSE IF resp.mode = "bad_shape" THEN [array |-> <<>>]
    ELSE [league |-> ListedLeagues(resp.listed)]

(***************************************************************************)
(* services/bet_service.py                                                 *)
(***************************************************************************)
\* the candidate names of a bet
team_names_of(bet_info) ==
    LET named == SelectSeq(<<bet_info.visitor, bet_info.home>>,
                           LAMBDA t : t # <<>>)
    IN IF named # <<>> THEN named
       ELSE extract_team_names_from_bet(bet_info.the_bet, bet_info.league)

\* f"{t1}_{t2}".replace(' ', '')
CacheKey(t1, t2) == RemoveSpaces(t1 \o Underscore \o t2)

\* f"bet_{bet_info.get('id')}"
BetIdKey(id) == BetPrefix \o Digits(id)

\* f"{id}_{visitor}_{home}", the key of the processed_bets set
ProcessedKey(bet_info) ==
    Digits(bet_info.id) \o Underscore \o bet_info.visitor
        \o Underscore \o bet_info.home

\* the cached ids of every key that starts with the key of the bet, and of
\* the pair keys
unique_game_ids_by_prefix(bet_info, team_names, gids) ==
    LET bk == BetIdKey(bet_info.id) IN
    {gids[k] : k \in {x \in DOMAIN gids :
                        Len(x) >= Len(bk) /\ SubSeq(x, 1, Len(bk)) = bk}}
    \cup {gids[CacheKey(team_names[i], team_names[j])] :
            <<i, j>> \in {p \in (1..Len(team_names)) \X (1..Len(team_names)) :
                team_names[p[1]] # team_names[p[2]]
                /\ CacheKey(team_names[p[1]], team_names[p[2]]) \in DOMAIN gids}}

\* set(possible_game_ids): the cached ids probed for a bet
unique_game_ids(bet_info, team_names, gids) ==
    (IF BetIdKey(bet_info.id) \in DOMAIN gids
     THEN {gids[BetIdKey(bet_info.id)]} ELSE {})
    \cup {gids[CacheKey(team_names[i], team_names[j])] :
            <<i, j>> \in {p \in (1..Len(team_names)) \X (1..Len(team_names)) :
                team_names[p[1]] # team_names[p[2]]
                /\ CacheKey(team_names[p[1]], team_names[p[2]]) \in DOMAIN gids}}

\* the events of a fixtures body in the order the nested loops visit them
RECURSIVE EventsInOrder(_)
EventsInOrder(leagues) ==
    IF leagues = <<>> THEN <<>>
    ELSE Head(leagues).events \o EventsInOrder(Tail(leagues))

\* the test of the fixture loop on one event
fixture_event_matches(event, team_names) ==
    LET api_home == Lower(event.home)
        api_away == Lower(event.away)
    IN \/ \E i \in 1..Len(team_names) :
            Contains(api_home, team_names[i]) \/ Contains(team_names[i], api_home)
       \/ \E i \in 1..Len(team_names) :
            Contains(api_away, team_names[i]) \/ Contains(team_names[i], api_away)

\* a store that writes the pair in one order only
store_game_id_one_order(gids, event, bet_info) ==
    LET api_home == RemoveSpaces(Lower(event.home))
        api_away == RemoveSpaces(Lower(event.away))
        g1 == Put(gids, api_away \o Underscore \o api_home, event.id)
    IN Put(g1, BetIdKey(bet_info.id), event.id)

\* a store that keeps nothing but the keys it writes
store_game_id_replacing(gids, event, bet_info) ==
    LET api_home == RemoveSpaces(Lower(event.home))
        api_away == RemoveSpaces(Lower(event.away))
        g1 == Put(EmptyDict, api_away \o Underscore \o api_home, event.id)
        g2 == Put(g1, api_home \o Underscore \o api_away, event.id)
    IN Put(g2, BetIdKey(bet_info.id), event.id)

\* the cache after the stores made for a matched event
store_game_id(gids, event, bet_info) ==
    LET api_home == RemoveSpaces(Lower(event.home))
        api_away == RemoveSpaces(Lower(event.away))
        g1 == Put(gids, api_away \o Underscore \o api_home, event.id)
        g2 == Put(g1, api_home \o Underscore \o api_away, event.id)
    IN Put(g2, BetIdKey(bet_info.id), event.id)

\* enrich_result_with_team_names: the provider's names of game_id, when listed
enrich_result_with_team_names(result, game_id, fixtures_data) ==
    LET evs == EventsInOrder(fixtures_data.league)
        hit == {i \in 1..Len(evs) : evs[i].id = game_id}
    IN IF hit = {} THEN result
       ELSE LET ev == evs[CHOOSE i \in hit : \A j \in hit : i <= j]
            IN [id |-> result.id, periods |-> result.periods,
                actual_home |-> ev.home, actual_away |-> ev.away]

\* an outcome of get_game_data in context c: the caches, the files and what
\* the call did so far (fx: how the fixtures request ended, "none" when it
\* was not made; listed: the events of the fixtures body; matched: the event
\* the search by names stored; cached: the cached ids of the bet; probed:
\* the cached ids asked in settled, in order)
Returned(c, result) ==
    [raised |-> FALSE, result |-> result, gids |-> c.gids, dgids |-> c.dgids,
     lv |-> c.lv, dlv |-> c.dlv, fx |-> c.fx, listed |-> c.listed,
     matched |-> c.matched, cached |-> c.cached, probed |-> c.probed]
Raised(c) ==
    [raised |-> TRUE, result |-> [error |-> <<>>], gids |-> c.gids,
     dgids |-> c.dgids, lv |-> c.lv, dlv |-> c.dlv, fx |-> c.fx,
     listed |-> c.listed, matched |-> c.matched, cached |-> c.cached,
     probed |-> c.probed]

\* step 5 of get_game_data: the search by names in the fixtures
fixture_search(bet_info, team_names, fixtures_data, c, st) ==
    IF "array" \in DOMAIN fixtures_data
    THEN {Raised(c)}   \* fixtures_data.get on a list
    ELSE LET evs == EventsInOrder(fixtures_data.league)
             hits == {i \in 1..Len(evs) :
                         fixture_event_matches(evs[i], team_names)}
         IN IF hits = {}
            THEN {Returned(c, [error |-> MsgNoMatch])}
            ELSE LET ev == evs[CHOOSE i \in hits : \A j \in hits : i <= j]
                     g == store_game_id(c.gids, ev, bet_info)
                     c1 == [c EXCEPT !.gids = g,
                                     !.dgids = save_json_file(@, g),
                                     !.matched = ev.id]
                 IN {LET r == search_in_settled(get_sport_id(bet_info.sport),
                                                c1.lv, c1.dlv, resp, st, ev.id)
                         c2 == [c1 EXCEPT !.lv = r.lv, !.dlv = r.dlv]
                     IN IF r.raised THEN Raised(c2)
                        ELSE Returned(c2,
                               [k \in DOMAIN r.result \cup {"actual_home", "actual_away"} |->
                                  IF k = "actual_home" THEN ev.home
                                  ELSE IF k = "actual_away" THEN ev.away
                                  ELSE r.result[k]])
                     : resp \in SettledResponses}

\* how a get_settled_fixtures request can end: with a body that is an
\* object, with {"error": ...}, or with a JSON body that is not an object
SettledFixturesModes == {"ok", "request_error", "bad_shape"}

\* step 4 of get_game_data: the cached ids, in the order ids, then step 5
RECURSIVE cache_probe(_, _, _, _, _, _)
cache_probe(ids, bet_info, team_names, fixtures_data, c, st) ==
    IF ids = <<>>
    THEN fixture_search(bet_info, team_names, fixtures_data, c, st)
    ELSE UNION {
        LET gid == Head(ids)
            r == search_in_settled(get_sport_id(bet_info.sport),
                                   c.lv, c.dlv, resp, st, gid)
            c2 == [c EXCEPT !.lv = r.lv, !.dlv = r.dlv,
                            !.probed = Append(@, gid)]
        IN IF r.raised THEN {Raised(c2)}
           ELSE IF "error" \notin DOMAIN r.result
           THEN IF "array" \in DOMAIN fixtures_data
                THEN {Raised(c2)}   \* fixtures_data.get on a list
                ELSE {Returned(c2, enrich_result_with_team_names(
                                       r.result, gid, fixtures_data))}
           ELSE LET rest == cache_probe(Tail(ids), bet_info, team_names,
                                        fixtures_data, c2, st)
                IN UNION {IF sf = "bad_shape"
                          THEN {Raised(c2)}   \* settled_fixtures.get on a list
                          ELSE rest
                          : sf \in SettledFixturesModes}
        : resp \in SettledResponses}

\* the outcomes of get_game_data(bet_info, ..., game_ids_cache,
\* last_values_cache), one for each way the provider can answer
get_game_data(bet_info, gids, dgids, lv, dlv, st) ==
    LET team_names == team_names_of(bet_info)
        c0 == [gids |-> gids, dgids |-> dgids, lv |-> lv, dlv |-> dlv,
               fx |-> "none", listed |-> {}, matched |-> 0, cached |-> {},
               probed |-> <<>>]
    IN IF team_names = <<>>
       THEN {Returned(c0, [error |-> MsgNoTeams])}
       ELSE LET sport_id == get_sport_id(bet_info.sport)
                unique == unique_game_ids(bet_info, team_names, gids)
            IN UNION {
                LET got == get_fixtures(sport_id, fr)
                    fixtures_data == IF "error" \in DOMAIN got
                                     THEN [league |-> <<>>] ELSE got
                    c == [c0 EXCEPT !.fx = IF sport_id <= 0 THEN "invalid_sport"
                                                            ELSE fr.mode,
                                    !.listed =
                                        IF "league" \in DOMAIN fixtures_data
                                        THEN {e \in EventIds :
                                                \E i \in 1..Len(fixtures_data.league) :
                                                  \E j \in 1..Len(fixtures_data.league[i].events) :
                                                    fixtures_data.league[i].events[j].id = e}
                                        ELSE {},
                                    !.cached = unique]
                IN UNION {cache_probe(order, bet_info, team_names,
                                      fixtures_data, c, st)
                          : order \in Orders(unique)}
                : fr \in FixturesResponses}

\* add_bet_info_to_result: the payload of a result notification
add_bet_info_to_result(result, bet_info) ==
    LET final_visitor == IF "actual_away" \in DOMAIN result
                         THEN result.actual_away ELSE bet_info.visitor
        final_home == IF "actual_home" \in DOMAIN result
                      THEN result.actual_home ELSE bet_info.home
        info == [id |-> bet_info.id, sport |-> bet_info.sport,
                 league |-> bet_info.original_league,
                 the_bet |-> bet_info.the_bet,
                 visitor |-> final_visitor, home |-> final_home]
    IN [k \in DOMAIN result \cup {"bet_info"} |->
          IF k = "bet_info" THEN info ELSE result[k]]

\* "not found in settled yet" in result["error"].lower()
is_not_found_in_settled_yet(error) == Contains(Lower(error), NotFoundYetPhrase)

\* what send_telegram_message can return: True, or False when the request
\* to the sink failed
SinkAnswers == {TRUE, FALSE}

\* the outcomes of process_bet for the results games of get_game_data
process_results(games, key, processed) ==
    LET errors == {g.result.error :
                     g \in {x \in games : "error" \in DOMAIN x.result}}
        ignored == {e \in errors : is_not_found_in_settled_yet(e)}
    IN UNION {
        IF o.raised
        THEN {[outcome |-> "Raised", sent |-> FALSE, delivered |-> FALSE,
               processed |-> processed, game |-> o]}
        ELSE IF "error" \in DOMAIN o.result
        THEN IF o.result.error \in ignored
             THEN {[outcome |-> "Deferred", sent |-> FALSE, delivered |-> FALSE,
                    processed |-> processed, game |-> o]}
             ELSE {[outcome |-> "Failed", sent |-> TRUE, delivered |-> d,
                    processed |-> processed, game |-> o] : d \in SinkAnswers}
        ELSE {[outcome |-> "Resolved", sent |-> TRUE, delivered |-> d,
               processed |-> processed \cup {key}, game |-> o]
              : d \in SinkAnswers}
        : o \in games}

\* process_bet without the test on processed_bets
process_bet_unguarded(bet_info, gids, dgids, lv, dlv, processed, st) ==
    process_results(get_game_data(bet_info, gids, dgids, lv, dlv, st),
                    ProcessedKey(bet_info), processed)

\* the outcomes of process_bet: what get_game_data returned, whether a
\* message was handed to send_telegram_message and what the sink answered,
\* and the processed_bets set
process_bet(bet_info, gids, dgids, lv, dlv, processed, st) ==
    LET key == ProcessedKey(bet_info) IN
    IF key \in processed
    THEN {[outcome |-> "Skipped", sent |-> FALSE, delivered |-> FALSE,
           processed |-> processed,
           game |-> Returned([gids |-> gids, dgids |-> dgids, lv |-> lv,
                              dlv |-> dlv, fx |-> "none", listed |-> {},
                              matched |-> 0, cached |-> {}, probed |-> <<>>],
                             [error |-> <<>>])]}
    ELSE process_results(get_game_data(bet_info, gids, dgids, lv, dlv, st),
                         key, processed)

\* what the polling loop keeps of an outcome of process_bet
Effect(o) ==
    [outcome |-> o.outcome, sent |-> o.sent, processed |-> o.processed,
     game |-> [gids |-> o.game.gids, dgids |-> o.game.dgids,
               lv |-> o.game.lv, dlv |-> o.game.dlv]]

(***************************************************************************)
(* main.py: the polling loop                                               *)
(***************************************************************************)
VARIABLES
    game_ids_cache,      \* cache key -> event id, in memory
    last_values_cache,   \* str(sport id) -> cursor, in memory
    disk_game_ids,       \* contents of data/game_ids_cache.json
    disk_last_values,    \* contents of data/settled_last.json
    processed_bets,      \* keys of the bets already notified
    consecutive_errors,  \* polling cycles that ended in an exception, in a row
    pc,                  \* "start": before the first cycle, "bets": in the for
                         \* loop, "sleep": in time.sleep(MAIN_LOOP_SLEEP),
                         \* "exited": after sys.exit(1), "stopped": after
                         \* sys.exit(0), "killed": KeyboardInterrupt left main
    bets_data,           \* the list loaded for the running cycle
    idx,                 \* position of the for loop in bets_data
    settled,             \* provider: event id -> "absent" | "empty" | "full"
    last,                \* what the latest process_bet call did
    notified,            \* bet id in BetIds -> messages handed to the sink
                         \* (to MaxCount)
    flushed,             \* the latest step ended with main saving both files
    probe                \* the latest single call made outside the loop: the
                         \* operation, its input and what it returned

loopvars == <<game_ids_cache, last_values_cache, disk_game_ids,
              disk_last_values, processed_bets, consecutive_errors, pc,
              bets_data, idx, settled, last, notified, flushed>>

vars == <<loopvars, probe>>

NoProbe == [op |-> "none"]

NoCall ==
    [bet |-> 0, outcome |-> "none", sent |-> FALSE]

Init ==
    /\ game_ids_cache = EmptyDict
    /\ last_values_cache = EmptyDict
    /\ disk_game_ids = EmptyDict
    /\ disk_last_values = EmptyDict
    /\ processed_bets = {}
    /\ consecutive_errors = 0
    /\ pc = "start"
    /\ bets_data = <<>>
    /\ idx = 0
    /\ settled = [e \in EventIds |-> "absent"]
    /\ last = NoCall
    /\ notified = [b \in BetIds |-> 0]
    /\ flushed = FALSE
    /\ probe = NoProbe

\* the provider settles an event, with or without its periods
Settle(e) ==
    /\ \/ /\ settled[e] = "absent"
          /\ e \in PartialEvents
          /\ settled' = [settled EXCEPT ![e] = "empty"]
       \/ settled[e] = "absent" /\ settled' = [settled EXCEPT ![e] = "full"]
       \/ settled[e] = "empty" /\ settled' = [settled EXCEPT ![e] = "full"]
    /\ UNCHANGED <<game_ids_cache, last_values_cache, disk_game_ids,
                   disk_last_values, processed_bets, consecutive_errors, pc,
                   bets_data, idx, last, notified, flushed, probe>>

\* lines 66-67, 72-73 and 80-81: main saves both caches
SaveBoth(gids, lv) ==
    /\ disk_game_ids' = save_json_file(disk_game_ids, gids)
    /\ disk_last_values' = save_json_file(disk_last_values, lv)
    /\ flushed' = TRUE

\* lines 47-51 and, for an empty source, 66-69 and 85-86: the sleep ends (or
\* the loop is entered) and the cycle loads the bets
StartCycle(src) ==
    /\ pc \in {"start", "sleep"}
    /\ IF ~src.ok \/ src.data = <<>>
       THEN /\ SaveBoth(game_ids_cache, last_values_cache)
            /\ consecutive_errors' = 0
            /\ pc' = "sleep"
            /\ UNCHANGED <<bets_data, idx>>
       ELSE /\ pc' = "bets"
            /\ bets_data' = src.data
            /\ idx' = 1
            /\ flushed' = FALSE
            /\ UNCHANGED <<disk_game_ids, disk_last_values, consecutive_errors>>
    /\ UNCHANGED <<game_ids_cache, last_values_cache, processed_bets, settled,
                   last, notified, probe>>

\* a test that lets the counter reach the threshold
too_many_errors_late(n) == n > MAX_CONSECUTIVE_ERRORS

\* line 78: consecutive_errors >= MAX_CONSECUTIVE_ERRORS
too_many_errors(n) == n >= MAX_CONSECUTIVE_ERRORS

\* lines 52-63 for one bet of the list, process_bet having ended as o; after
\* the last bet, lines 66-69 and 85-86; when process_bet raises, lines 75-83
\* and 85-86
ProcessBetStep(bet_info, o) ==
    /\ game_ids_cache' = o.game.gids
    /\ last_values_cache' = o.game.lv
    /\ processed_bets' = o.processed
    /\ last' = [bet |-> bet_info.id, outcome |-> o.outcome,
                sent |-> o.sent]
    /\ notified' = IF bet_info.id \in BetIds
                    THEN [notified EXCEPT ![bet_info.id] =
                            IF o.sent /\ @ < MaxCount THEN @ + 1 ELSE @]
                    ELSE notified
    /\ IF o.outcome = "Raised"
       THEN /\ consecutive_errors' = consecutive_errors + 1
            /\ bets_data' = <<>>
            /\ idx' = 0
            /\ IF too_many_errors(consecutive_errors + 1)
               THEN /\ SaveBoth(o.game.gids, o.game.lv)
                    /\ pc' = "exited"
               ELSE /\ disk_game_ids' = o.game.dgids
                    /\ disk_last_values' = o.game.dlv
                    /\ flushed' = FALSE
                    /\ pc' = "sleep"
       ELSE IF idx = Len(bets_data)
       THEN /\ SaveBoth(o.game.gids, o.game.lv)
            /\ consecutive_errors' = 0
            /\ bets_data' = <<>>
            /\ idx' = 0
            /\ pc' = "sleep"
       ELSE /\ disk_game_ids' = o.game.dgids
            /\ disk_last_values' = o.game.dlv
            /\ flushed' = FALSE
            /\ idx' = idx + 1
            /\ UNCHANGED <<consecutive_errors, bets_data, pc>>

\* one iteration of the for loop of lines 52-63
ProcessBet ==
    /\ pc = "bets"
    /\ LET bet_info == map_bet_info(bets_data[idx]) IN
       \E o \in {Effect(x) :
                  x \in process_bet(bet_info, game_ids_cache, disk_game_ids,
                                    last_values_cache, disk_last_values,
                                    processed_bets, settled)} :
         ProcessBetStep(bet_info, o)
    /\ UNCHANGED <<settled, probe>>

\* KeyboardInterrupt.  Raised inside the try (while the bets are loaded or
\* processed) it is caught at lines 70-74: both files are saved and the
\* process exits.  Raised by time.sleep(MAIN_LOOP_SLEEP), line 86, it is
\* outside the try and leaves main at once.
Interrupt ==
    /\ \/ /\ pc \in {"start", "sleep", "bets"}
          /\ SaveBoth(game_ids_cache, last_values_cache)
          /\ pc' = "stopped"
       \/ /\ pc = "sleep"
          /\ pc' = "killed"
          /\ flushed' = FALSE
          /\ UNCHANGED <<disk_game_ids, disk_last_values>>
    /\ UNCHANGED <<game_ids_cache, last_values_cache, processed_bets,
                   consecutive_errors, bets_data, idx, settled, last, notified,
                   probe>>

Next ==
    \/ \E e \in SettlingEvents : Settle(e)
    \/ \E src \in SourceContents : StartCycle(src)
    \/ ProcessBet
    \/ Interrupt

Spec == Init /\ [][Next]_vars

(***************************************************************************)
(* The polling loop left running on a bet source that keeps its bets, with  *)
(* a provider and a sink that answer again and again                        *)
(***************************************************************************)
\* the bets that stay in the source
PendingSource == [ok |-> TRUE, data |-> <<Bet1, Bet2>>]

\* every request of the call was answered: the fixtures request with a body
\* that lists the games, the settled request that gave the result with a
\* body, and the sink took the message, if one was sent
Served(o) ==
    \/ o.outcome = "Skipped"
    \/ /\ o.outcome # "Raised"
       /\ o.game.fx = "ok"
       /\ o.game.listed = EventIds
       /\ "error" \in DOMAIN o.game.result => o.game.result.error # MsgConnection
       /\ o.sent => o.delivered

\* what the polling loop keeps of an outcome of process_bet, with what the
\* sink answered (line 298 drops the value send_telegram_message returns)
CallEffect(o) ==
    [outcome |-> o.outcome, sent |-> o.sent, processed |-> o.processed,
     game |-> [gids |-> o.game.gids, dgids |-> o.game.dgids,
               lv |-> o.game.lv, dlv |-> o.game.dlv],
     delivered |-> o.sent /\ o.delivered, served |-> Served(o)]

\* lines 47-51: a cycle starts on the pending bets
CycleStart == StartCycle(PendingSource)

\* one iteration of the for loop of lines 52-63; probe keeps what the sink
\* answered
CycleCall ==
    /\ pc = "bets"
    /\ LET bet_info == map_bet_info(bets_data[idx]) IN
       \E o \in {CallEffect(x) :
                  x \in process_bet(bet_info, game_ids_cache, disk_game_ids,
                                    last_values_cache, disk_last_values,
                                    processed_bets, settled)} :
         /\ ProcessBetStep(bet_info, o)
         /\ probe' = [op |-> "cycle_call", bet |-> bet_info.id,
                      outcome |-> o.outcome, delivered |-> o.delivered,
                      served |-> o.served]
    /\ UNCHANGED settled

LiveNext ==
    \/ \E e \in SettlingEvents : Settle(e)
    \/ CycleStart
    \/ CycleCall

\* the for loop is at this bet
AtBet(id) == pc = "bets" /\ bets_data[idx].id = id

\* the latest iteration was for this bet, and the provider and the sink
\* answered in it
ServedFor(id) == probe.op = "cycle_call" /\ probe.bet = id /\ probe.served

\* the while loop of line 45 goes on as long as the process lives: the sleep
\* of line 86 ends and a cycle starts, and every iteration of the for loop
\* ends.  A bet the for loop comes to again and again is served again and
\* again.
LiveSpec ==
    /\ Init
    /\ [][LiveNext]_vars
    /\ WF_vars(CycleStart)
    /\ []<>(pc # "bets")
    /\ \A id \in {Bet1.id, Bet2.id} : []<>AtBet(id) => []<>ServedFor(id)

(***************************************************************************)
(* Single calls: the start of main, the file functions, one settled poll   *)
(* and get_normalized_team, each applied to inputs of bounded sets         *)
(***************************************************************************)
MaxPad == 1

Spaces(n) == [i \in 1..n |-> " "]

\* a name as a bet file can spell it
CaseStyles == {"lower", "upper", "title"}
Styled(s, style) ==
    IF style = "upper" THEN Upper(s)
    ELSE IF style = "title" /\ s # <<>> THEN <<UpperChar[Head(s)]>> \o Tail(s)
    ELSE s

\* lower-case names: aliases of some table, and names of no table
NameBases == {Dubs, Unc, Warriors, <<"p", "a", "t", "s">>, <<>>}

\* league labels with the table the label selects (line 24)
LeagueLabels ==
    {[label |-> NBA, table |-> nba_teams],
     [label |-> <<" ", "n", "b", "a", " ">>, table |-> nba_teams],
     [label |-> NCAAB, table |-> ncaa_basketball_teams],
     [label |-> <<"N", "c", "a", "a", "m">>, table |-> ncaa_basketball_teams],
     [label |-> <<"N", "F", "L">>, table |-> nfl_teams],
     [label |-> NCAA, table |-> EmptyTable],
     [label |-> <<"X", "F", "L">>, table |-> EmptyTable]}

\* get_normalized_team(raw, league) for one spelling of a name
Normalize(base, style, lead, trail, league) ==
    /\ probe = NoProbe
    /\ LET raw == Spaces(lead) \o Styled(base, style) \o Spaces(trail) IN
       probe' = [op |-> "normalize", alias |-> base, raw |-> raw,
                 league |-> league.label, table |-> league.table,
                 out |-> get_normalized_team(raw, league.label)]
    /\ UNCHANGED loopvars

SportKeys == {Digits(4), Digits(29)}

\* the cursor stores main can hold: str(sport id) -> cursor
CursorStores ==
    UNION {[K -> LastValues \cup {StrTok(<<"a", "1">>)}] : K \in SUBSET SportKeys}

\* the Game-ID caches main can hold: bet key or pair key -> event id
CacheKeys == {BetIdKey(1), CacheKey(Warriors, Lakers), CacheKey(Lakers, Warriors)}
CacheStores ==
    UNION {[K -> {IntTok(501), IntTok(502)}] : K \in SUBSET CacheKeys}

\* save_json_file(FILE, m), then load_json_file(FILE)
RoundTrip(m, order) ==
    /\ probe = NoProbe
    /\ LET file == written_file(m, order) IN
       probe' = [op |-> "round_trip", mapping |-> m, file |-> file,
                 loaded |-> load_json_file(file)]
    /\ UNCHANGED loopvars

\* texts a data file can hold that are not a written mapping
BrokenTexts ==
    {<<"{">>, <<"{", "\"", "4", "\"", ":", "}">>, <<"[", "]">>,
     <<"[", "1", "]">>, <<"7">>, <<"\"", "a", "\"">>, <<>>}

StartFiles ==
    {MissingFile} \cup {FileOf(t) : t \in BrokenTexts}
        \cup {written_file(m, <<Digits(4)>>) :
                 m \in [{Digits(4)} -> LastValues]}
        \cup {written_file(EmptyDict, <<>>)}

\* main.py lines 39-40 on one file
LoadAtStart(file) ==
    /\ probe = NoProbe
    /\ probe' = [op |-> "load", file |-> file, value |-> load_or_empty(file)]
    /\ UNCHANGED loopvars

AllSettled == [e \in EventIds |-> "full"]

\* a restart: the cursor file written before it is loaded (line 40), then
\* the first settled poll, for sport 4
RestartPoll(m, order, resp, game_id) ==
    /\ probe = NoProbe
    /\ LET loaded == load_or_empty(written_file(m, order))
           r == search_in_settled(4, loaded[2], m, resp, AllSettled, game_id)
       IN probe' = [op |-> "restart_poll", persisted |-> m, loaded |-> loaded,
                    resp |-> resp, raised |-> r.raised,
                    lv |-> r.lv, dlv |-> r.dlv]
    /\ UNCHANGED loopvars

\* one settled poll for an event, with the cursor c stored for the sport
\* (0: nothing stored)
SettledLookup(c, e, resp) ==
    /\ probe = NoProbe
    /\ LET lv == IF c = 0 THEN EmptyDict ELSE (Digits(4) :> IntTok(c))
           r == search_in_settled(4, lv, lv, resp, AllSettled, e)
       IN probe' = [op |-> "settled_lookup", cursor |-> c, event |-> e,
                    resp |-> resp, raised |-> r.raised, result |-> r.result]
    /\ UNCHANGED loopvars

\* the free texts of a bet: a team word in some spelling, then the line
BetWords == {Lakers, Dubs, <<"z", "a", "g", "s">>, <<>>}
BetLines == {<<>>, <<" ", "-", "4", ".", "5">>}

\* the structured team fields of a bet record
VisitorFields == {<<>>, <<" ">>, Warriors}
HomeFields == {<<>>, Lakers}

\* lines 140-148 of get_game_data for one record of the bet source
CandidateNames(league, visitor, home, word, style, lead, line) ==
    /\ probe = NoProbe
    /\ LET record == [id |-> 1, sport |-> Basketball, league |-> league,
                      visitor |-> visitor, home |-> home,
                      the_bet |-> Spaces(lead) \o Styled(word, style) \o line]
       IN probe' = [op |-> "team_names", record |-> record, word |-> word,
                    names |-> team_names_of(map_bet_info(record))]
    /\ UNCHANGED loopvars

\* provider team names and candidate names for one test of the fixture loop
Arkansas == <<"A", "r", "k", "a", "n", "s", "a", "s">>
IowaState == <<"I", "o", "w", "a", " ", "S", "t", "a", "t", "e">>
ProviderNames == {Arkansas, IowaState, NorthCarolina}
Candidates ==
    {Lower(Arkansas), <<"k", "a", "n", "s", "a", "s">>, <<"a", "r", "k">>,
     Lower(IowaState), <<"i", "o", "w", "a">>, <<"s", "t", "a", "t", "e">>,
     <<"i", "o", "w", "a", " ", "s", "t">>, <<"o", "w", "a">>,
     Lower(NorthCarolina), <<"n", "o", "r", "t", "h">>,
     <<"c", "a", "r", "o", "l", "i", "n", "a">>, Lakers}

\* the test of lines 209-210 for one candidate name of a bet of this league
\* and an event whose home team is the provider name
MatchTeam(league, candidate, provider) ==
    /\ probe = NoProbe
    /\ LET event == [id |-> 701, home |-> provider, away |-> DukeFull] IN
       probe' = [op |-> "match", league |-> league, candidate |-> candidate,
                 provider |-> Lower(provider),
                 out |-> fixture_event_matches(event, <<candidate>>)]
    /\ UNCHANGED loopvars

\* the bets handed to a single process_bet call
CallBets == {Bet1, Bet2, Bet3, Bet4, Bet10}

\* the fixture of the provider with this id
EventOf(e) ==
    LET evs == EventsInOrder(FixtureLeagues) IN
    evs[CHOOSE i \in 1..Len(evs) : evs[i].id = e]

\* the matches of the search by names that can have filled the cache: an
\* event and the bet it was stored for
Matches ==
    {<<501, Bet1>>, <<502, Bet1>>, <<501, Bet4>>, <<502, Bet4>>,
     <<601, Bet2>>, <<601, Bet10>>}

CachesAfter(C) ==
    {store_game_id(c, EventOf(m[1]), map_bet_info(m[2])) :
        c \in C, m \in Matches}

\* the Game-ID caches left by up to two matches
CallCaches ==
    {EmptyDict} \cup CachesAfter({EmptyDict})
        \cup CachesAfter(CachesAfter({EmptyDict}))

\* the settled results of the provider at the time of the call
CallSettled ==
    {st \in [EventIds -> {"absent", "empty", "full"}] :
        \A e \in EventIds : st[e] = "empty" => e \in PartialEvents}

\* the cursor stores at the time of the call
CallCursors == {EmptyDict, (Digits(4) :> IntTok(1))}

\* process_bet for one bet, with the cache gids and the cursor store lv in
\* memory and in the files; done: the key of the bet is in processed_bets
\* (which takes an earlier settled poll for the bet)
ProcessOne(bet, gids, lv, st, done) ==
    /\ probe = NoProbe
    /\ lv # EmptyDict => done
    /\ LET bet_info == map_bet_info(bet)
           processed == IF done THEN {ProcessedKey(bet_info)} ELSE {}
       IN \E o \in process_bet(bet_info, gids, gids, lv, lv, processed, st) :
            probe' = [op |-> "process_bet", bet |-> bet_info, gids |-> gids,
                      lv |-> lv, st |-> st, processed |-> processed, o |-> o]
    /\ UNCHANGED loopvars

\* one settled request for a sport, with the cursor store m in memory and
\* in the file
SettledPoll(sport_id, m, resp, game_id) ==
    /\ probe = NoProbe
    /\ LET r == search_in_settled(sport_id, m, m, resp, AllSettled, game_id) IN
       probe' = [op |-> "settled_poll", sport |-> sport_id, before |-> m,
                 resp |-> resp, raised |-> r.raised, lv |-> r.lv,
                 dlv |-> r.dlv]
    /\ UNCHANGED loopvars

\* the `last` values a settled response can carry: numbers, and opaque
\* string tokens
WrittenCursors == LastValues \cup {StrTok(<<"X", "Y", "Z">>)}

\* two settled polls for a sport in a row: the first one is answered with a
\* body whose `last` is written to the empty cursor store (lines 60-62), the
\* second one reads what the first one stored (lines 31-36)
PollAfterStore(sport_id, written, resp, game_id) ==
    /\ probe = NoProbe
    /\ LET first == search_in_settled(sport_id, EmptyDict, EmptyDict,
                                      [mode |-> "ok", last |-> written],
                                      AllSettled, game_id)
           second == search_in_settled(sport_id, first.lv, first.dlv, resp,
                                       AllSettled, game_id)
       IN probe' = [op |-> "poll_after_store", sport |-> sport_id,
                    written |-> written, stored |-> first.lv,
                    first_raised |-> first.raised, resp |-> resp,
                    raised |-> second.raised, result |-> second.result]
    /\ UNCHANGED loopvars

\* events a fixtures body can list for the search by names: both teams of
\* the bets below, one of them, none, and events without a home or an away
\* name (event.get('home', '') gives '' for a missing key)
BostonCeltics ==
    <<"B", "o", "s", "t", "o", "n", " ", "C", "e", "l", "t", "i", "c", "s">>
NewYorkKnicks ==
    <<"N", "e", "w", " ", "Y", "o", "r", "k", " ", "K", "n", "i", "c", "k", "s">>
SearchEvents ==
    {[id |-> 701, home |-> LosAngelesLakers, away |-> GoldenStateWarriors],
     [id |-> 702, home |-> LosAngelesLakers, away |-> BostonCeltics],
     [id |-> 703, home |-> NewYorkKnicks, away |-> BostonCeltics],
     [id |-> 704, home |-> <<>>, away |-> BostonCeltics],
     [id |-> 705, home |-> NewYorkKnicks, away |-> <<>>]}

\* bets with both team fields, and with one
SearchBets == {Bet1, Bet4, [Bet1 EXCEPT !.home = <<>>]}

\* step 5 of get_game_data (lines 203-229) for a bet without cached ids and
\* a fixtures body that lists one event
BindEvent(bet, event) ==
    /\ probe = NoProbe
    /\ LET bet_info == map_bet_info(bet)
           team_names == team_names_of(bet_info)
           fixtures_data == [league |-> <<[name |-> NBA, events |-> <<event>>]>>]
           c == [gids |-> EmptyDict, dgids |-> EmptyDict, lv |-> EmptyDict,
                 dlv |-> EmptyDict, fx |-> "ok", listed |-> {event.id},
                 matched |-> 0, cached |-> {}, probed |-> <<>>]
           outs == fixture_search(bet_info, team_names, fixtures_data, c,
                                  AllSettled)
       IN probe' = [op |-> "bind", bet |-> bet_info, names |-> team_names,
                    event |-> event,
                    bound |-> {o.matched : o \in outs} \ {0},
                    cached |-> UNION {{o.gids[k] : k \in DOMAIN o.gids} :
                                         o \in outs}]
    /\ UNCHANGED loopvars

CallNext ==
    \/ probe = NoProbe /\ \E bet \in SearchBets, event \in SearchEvents :
          BindEvent(bet, event)
    \/ probe = NoProbe /\ \E sport_id \in {4, 29}, written \in WrittenCursors,
          resp \in SettledResponses :
          PollAfterStore(sport_id, written, resp, 501)
    \/ probe = NoProbe /\ \E sport_id \in {4, 29}, m \in CursorStores, resp \in SettledResponses :
          SettledPoll(sport_id, m, resp, 501)
    \/ probe = NoProbe /\ \E league \in {NBA, NCAA, NCAAB}, candidate \in Candidates,
          provider \in ProviderNames : MatchTeam(league, candidate, provider)
    \/ probe = NoProbe /\ \E league \in {NBA, NCAAB}, visitor \in VisitorFields,
          home \in HomeFields, word \in BetWords, style \in CaseStyles,
          lead \in 0..MaxPad, line \in BetLines :
          CandidateNames(league, visitor, home, word, style, lead, line)
    \/ probe = NoProbe /\ \E bet \in CallBets, gids \in CallCaches, lv \in CallCursors,
          st \in CallSettled, done \in BOOLEAN :
          ProcessOne(bet, gids, lv, st, done)
    \/ probe = NoProbe /\ \E base \in NameBases, style \in CaseStyles, lead \in 0..MaxPad,
          trail \in 0..MaxPad, league \in LeagueLabels :
          Normalize(base, style, lead, trail, league)
    \/ probe = NoProbe /\ \E m \in CursorStores \cup CacheStores :
          \E order \in Orders(DOMAIN m) : RoundTrip(m, order)
    \/ probe = NoProbe /\ \E file \in StartFiles : LoadAtStart(file)
    \/ probe = NoProbe /\ \E m \in CursorStores, resp \in SettledResponses :
          \E order \in Orders(DOMAIN m) : RestartPoll(m, order, resp, 501)
    \/ probe = NoProbe /\ \E c \in 0..MaxCursor, e \in EventIds, resp \in SettledResponses :
          SettledLookup(c, e, resp)

CallSpec == Init /\ [][CallNext]_vars

(***************************************************************************)
(* Properties                                                              *)
(***************************************************************************)
\* the bet the for loop is at, and the outcomes process_bet can have for it
CurrentBet == map_bet_info(bets_data[idx])
CurrentCalls ==
    IF pc = "bets"
    THEN process_bet(CurrentBet, game_ids_cache, disk_game_ids,
                     last_values_cache, disk_last_values, processed_bets,
                     settled)
    ELSE {}

\* the bets of the source, as process_bet receives them
SourceBets == {map_bet_info(b) : b \in {Bet1, Bet2}}

\* C1: once a bet's key is in processed_bets (its processing reached
\* Resolved), no step hands another message for that bet to the sink and the
\* key stays in the set; the step that puts the key in the set hands over
\* exactly one message.  From zero messages this gives exactly one in total.
C1_OneNotificationPerResolvedBet ==
    [][\A b \in SourceBets :
         LET key == ProcessedKey(b) IN
         /\ key \in processed_bets
                => /\ key \in processed_bets'
                   /\ notified'[b.id] = notified[b.id]
         /\ (key \notin processed_bets /\ key \in processed_bets')
                => notified'[b.id] =
                       IF notified[b.id] < MaxCount THEN notified[b.id] + 1
                       ELSE MaxCount]_vars

\* C1 witness: a later cycle processed bet 1 again, skipped it, and
\* the sink holds the one message of its resolution
C1_Witness ==
    /\ last = [bet |-> 1, outcome |-> "Skipped", sent |-> FALSE]
    /\ ProcessedKey(map_bet_info(Bet1)) \in processed_bets
    /\ notified[1] = 1

\* the result is a settled event that carries no periods
HasEmptyPeriods(o) ==
    /\ ~o.game.raised
    /\ "periods" \in DOMAIN o.game.result
    /\ o.game.result.periods = <<>>

\* C2: a call that finds the bet's event in the settled results with an
\* empty period list ends Deferred, sends nothing and leaves processed_bets
\* as it was.
C2_EmptyPeriodsDeferred ==
    \A o \in CurrentCalls :
        HasEmptyPeriods(o)
            => /\ o.outcome = "Deferred"
               /\ ~o.sent
               /\ o.processed = processed_bets

\* the names under which pairs are stored and looked up: the provider's
\* names, lower-cased, and the candidate names of the bets
PairNames ==
    LET evs == EventsInOrder(FixtureLeagues) IN
    UNION {{Lower(evs[i].home), Lower(evs[i].away)} : i \in 1..Len(evs)}
        \cup UNION {Range(team_names_of(b)) : b \in SourceBets}

PairSymmetric(cache) ==
    \A A \in PairNames : \A B \in PairNames :
        CacheKey(A, B) \in DOMAIN cache
            => /\ CacheKey(B, A) \in DOMAIN cache
               /\ cache[CacheKey(B, A)] = cache[CacheKey(A, B)]

\* C3: in the cache in memory and in the cache file, a pair key is present
\* exactly when the key of the reversed pair is, and both hold the same
\* event id.
C3_CacheSymmetric ==
    PairSymmetric(game_ids_cache) /\ PairSymmetric(disk_game_ids)

\* C3 witness: the pair warriors/lakers was stored for event 501 and stored
\* again for event 502, and the NCAA pair is stored too
C3_Witness ==
    LET w == Lower(GoldenStateWarriors)
        l == Lower(LosAngelesLakers)
    IN /\ CacheKey(w, l) \in DOMAIN game_ids_cache
       /\ game_ids_cache[CacheKey(w, l)] = 502
       /\ game_ids_cache[CacheKey(l, w)] = 502
       /\ CacheKey(Lower(DukeFull), Lower(NorthCarolina)) \in DOMAIN game_ids_cache

\* C4: no step moves the stored cursor of a sport to a smaller value or
\* removes it.
C4_CursorOnlyAdvances ==
    [][\A k \in DOMAIN last_values_cache :
         /\ k \in DOMAIN last_values_cache'
         /\ last_values_cache'[k][2] >= last_values_cache[k][2]]_vars

\* the name of the provider league that lists event e
LeagueOfEvent(e) ==
    LET i == CHOOSE n \in 1..Len(FixtureLeagues) :
                 \E j \in 1..Len(FixtureLeagues[n].events) :
                     FixtureLeagues[n].events[j].id = e
    IN FixtureLeagues[i].name

IsWomenLeague(name) ==
    \/ Contains(Upper(name), <<"W", "N", "C", "A", "A">>)
    \/ Contains(Upper(name), <<"W", "O", "M", "E", "N">>)

\* C5: for a bet whose league is one of NCAA_LEAGUES, the fixture search
\* matches no event of a league whose name contains WNCAA or WOMEN.
C5_NoWomenLeagueMatch ==
    \A o \in CurrentCalls :
        (Upper(CurrentBet.league) \in NCAA_LEAGUES /\ o.game.matched # 0)
            => ~IsWomenLeague(LeagueOfEvent(o.game.matched))

\* C6: when the fixture search matched an event, the cache the call leaves
\* maps bet_<id> and the key of every ordered pair of distinct candidate
\* names to that event.
C6_AllKeysStored ==
    \A o \in CurrentCalls :
        o.game.matched # 0
            => LET N == team_names_of(CurrentBet) IN
               /\ BetIdKey(CurrentBet.id) \in DOMAIN o.game.gids
               /\ o.game.gids[BetIdKey(CurrentBet.id)] = o.game.matched
               /\ \A i \in 1..Len(N) : \A j \in 1..Len(N) :
                     N[i] # N[j]
                        => /\ CacheKey(N[i], N[j]) \in DOMAIN o.game.gids
                           /\ o.game.gids[CacheKey(N[i], N[j])] = o.game.matched

\* the call ended because the event is not in the settled results yet, or
\* because the fixtures that were fetched list no matching event
IsPending(o) ==
    /\ ~o.game.raised
    /\ "error" \in DOMAIN o.game.result
    /\ \/ \E e \in EventIds :
             o.game.result.error = MsgSettledPre \o Digits(e) \o MsgSettledPost
       \/ o.game.fx = "ok" /\ o.game.result.error = MsgNoMatch

\* C7: a call that ends pending hands no message to the sink.
C7_PendingSendsNothing ==
    \A o \in CurrentCalls : IsPending(o) => ~o.sent

\* C8: when the fixtures request fails and the cache holds an event id for
\* the bet, the call ends Resolved or Deferred.
C8_FixtureFailureFallsBackToCache ==
    \A o \in CurrentCalls :
        (o.game.fx = "request_error" /\ o.game.cached # {})
            => o.outcome \in {"Resolved", "Deferred"}

\* C9: the result of a call whose fixtures request failed differs from the
\* result of a call whose fixtures request succeeded and matched no event.
C9_FixtureFailureDistinct ==
    \A o1 \in CurrentCalls : \A o2 \in CurrentCalls :
        (/\ ~o1.game.raised /\ o1.game.fx = "request_error"
         /\ ~o2.game.raised /\ o2.game.fx = "ok"
         /\ o2.game.matched = 0
         /\ "error" \in DOMAIN o2.game.result
         /\ o2.game.result.error = MsgNoMatch)
            => o1.game.result # o2.game.result

\* C10: no processing of a bet ends in an exception that reaches the
\* polling loop.
C10_NothingRaised ==
    last.outcome # "Raised" /\ consecutive_errors = 0

\* C11: the polling loop never ends the process because cycles failed.
C11_LoopNeverExits ==
    pc # "exited"

\* C12: a call whose result message the sink did not accept leaves the
\* bet's key out of processed_bets.
C12_GuardOnlyAfterDelivery ==
    \A o \in CurrentCalls :
        (o.outcome = "Resolved" /\ ~o.delivered)
            => ProcessedKey(CurrentBet) \notin o.processed

\* the record gives no team name to search with
LacksTeamInfo(bet_info) == team_names_of(bet_info) = <<>>

\* C13: once a record without team information has been processed, a later
\* processing of the same record asks the provider nothing and hands no
\* message to the sink.
C13_InputErrorNotRetried ==
    (pc = "bets" /\ LacksTeamInfo(CurrentBet) /\ last.bet = CurrentBet.id)
        => \A o \in CurrentCalls :
              /\ ~o.sent
              /\ o.game.fx = "none"
              /\ o.game.probed = <<>>

\* C14: when a requested termination has ended the process, the step that
\* ended it saved both files.
C14_FlushOnTermination ==
    pc \in {"stopped", "killed"} => flushed

C16_CursorsSurviveRestart ==
    probe.op = "restart_poll"
        => /\ probe.loaded = ObjTok(probe.persisted)
           /\ \A k \in DOMAIN probe.persisted :
                 (\/ k # Digits(4)
                  \/ probe.resp.mode # "ok"
                  \/ probe.resp.last = NoLast)
                     => /\ k \in DOMAIN probe.lv
                        /\ probe.lv[k] = probe.persisted[k]
                        /\ k \in DOMAIN probe.dlv
                        /\ probe.dlv[k] = probe.persisted[k]

C16_Witness ==
    /\ probe.op = "restart_poll"
    /\ DOMAIN probe.persisted = SportKeys
    /\ probe.resp.mode = "ok" /\ probe.resp.last # NoLast
    /\ probe.lv[Digits(4)] # probe.persisted[Digits(4)]
    /\ probe.lv[Digits(29)] = probe.persisted[Digits(29)]
    /\ probe.dlv = probe.lv

IsWrittenMapping(file) ==
    /\ file.exists
    /\ \E m \in CursorStores \cup CacheStores :
          \E order \in Orders(DOMAIN m) : file = written_file(m, order)

\* C18: the start on a file that is missing or corrupt (not parseable, or
\* parseable to something that is not a mapping) gives the empty mapping
C18_CorruptFileLoadsEmpty ==
    (probe.op = "load" /\ ~IsWrittenMapping(probe.file))
        => probe.value = ObjTok(EmptyDict)

\* C19: a Game-ID cache or cursor store written by save_json_file and read
\* by load_json_file is the mapping that was written: same keys, same
\* event ids or cursor values
C19_SaveLoadRoundTrip ==
    probe.op = "round_trip" => probe.loaded = ObjTok(probe.mapping)

C19_Witness ==
    /\ probe.op = "round_trip"
    /\ Cardinality(DOMAIN probe.mapping) >= 2
    /\ \E k \in DOMAIN probe.mapping : probe.mapping[k][1] = "int"
    /\ probe.loaded = ObjTok(probe.mapping)

\* C20: a name that, trimmed and lower-cased, is an alias of the table the
\* league label selects is answered by the canonical name of the alias,
\* whatever its case and padding; any other name, and any name under a
\* label that selects no table, is answered unchanged
C20_NormalizeCanonicalOrIdentity ==
    probe.op = "normalize"
        => IF probe.alias \in DOMAIN probe.table
           THEN probe.out = probe.table[probe.alias]
           ELSE probe.out = probe.raw

C20_Witness ==
    /\ probe.op = "normalize"
    /\ probe.alias \in DOMAIN probe.table
    /\ probe.raw # probe.alias
    /\ Len(probe.raw) > Len(probe.alias)
    /\ probe.out = probe.table[probe.alias]
    /\ probe.out # probe.raw

\* the period of a period list that has number zero
PeriodZero(periods) ==
    periods[CHOOSE i \in 1..Len(periods) : periods[i].number = 0]

\* C21: the payload of a Resolved bet whose event has periods carries the
\* final score of the period with number zero, the away score being its
\* team1Score and the home score its team2Score, and every period entry
\* carries the two scores as away and home score
C21_FinalScoreFromPeriodZero ==
    (/\ probe.op = "process_bet"
     /\ probe.o.outcome = "Resolved"
     /\ probe.o.game.result.periods # <<>>)
        => LET payload == add_bet_info_to_result(probe.o.game.result, probe.bet)
               final == PeriodZero(probe.o.game.result.periods)
           IN /\ "teams" \in DOMAIN payload
              /\ payload.teams.away.score = final.team1Score
              /\ payload.teams.home.score = final.team2Score
              /\ \A i \in 1..Len(payload.periods) :
                    /\ "away" \in DOMAIN payload.periods[i]
                    /\ "home" \in DOMAIN payload.periods[i]

\* the stripped, lower-cased structured fields of a record that are not
\* empty, visitor first
StructuredNames(record) ==
    SelectSeq(<<Strip(Lower(record.visitor)), Strip(Lower(record.home))>>,
              LAMBDA t : t # <<>>)

\* the alias table of the league a bet record names
TableOfLeague(league) ==
    IF league = NBA THEN nba_teams ELSE ncaa_basketball_teams

\* C22: with both team fields empty the candidate names are the normalized
\* leading word of the lower-cased free text (none when the text does not
\* start with a letter); with a team field that is not empty they are the
\* structured names and the free text is not used
C22_CandidateNames ==
    probe.op = "team_names"
        => IF StructuredNames(probe.record) = <<>>
           THEN probe.names =
                  IF probe.word = <<>> THEN <<>>
                  ELSE IF probe.word \in DOMAIN TableOfLeague(probe.record.league)
                  THEN <<TableOfLeague(probe.record.league)[probe.word]>>
                  ELSE <<probe.word>>
           ELSE probe.names = StructuredNames(probe.record)

\* the cache keys a fixture match of event e for a bet writes: the key of
\* the bet and the two pair keys of the event's teams
KeysOfMatch(bet_info, e) ==
    LET h == Lower(EventOf(e).home)
        a == Lower(EventOf(e).away)
    IN {BetIdKey(bet_info.id), CacheKey(a, h), CacheKey(h, a)}

\* every entry of cache before is in cache after, with the same event id
\* unless the call matched a fixture that writes its key
EntriesKept(before, after, bet_info, matched) ==
    \A k \in DOMAIN before :
        /\ k \in DOMAIN after
        /\ after[k] # before[k]
              => /\ matched # 0
                 /\ k \in KeysOfMatch(bet_info, matched)
                 /\ after[k] = matched

\* C23: a call of process_bet keeps every entry of the Game-ID cache, in
\* memory and in the file, except the entries a fixture match of this call
\* writes (the bet's key and the pair keys of the matched event's teams); a
\* call without fixture match changes no entry and adds none
C23_CacheEntriesKept ==
    probe.op = "process_bet"
        => /\ EntriesKept(probe.gids, probe.o.game.gids, probe.bet,
                          probe.o.game.matched)
           /\ EntriesKept(probe.gids, probe.o.game.dgids, probe.bet,
                          probe.o.game.matched)
           /\ probe.o.game.matched = 0
                 => /\ probe.o.game.gids = probe.gids
                    /\ probe.o.game.dgids = probe.gids

C23_Witness ==
    LET w == Lower(GoldenStateWarriors)
        l == Lower(LosAngelesLakers)
        d == CacheKey(Lower(DukeFull), Lower(NorthCarolina))
    IN /\ probe.op = "process_bet"
       /\ probe.bet.id = 1
       /\ d \in DOMAIN probe.gids
       /\ CacheKey(w, l) \in DOMAIN probe.gids
       /\ probe.gids[CacheKey(w, l)] = 501
       /\ probe.o.game.matched = 502
       /\ probe.o.game.gids[CacheKey(w, l)] = 502
       /\ probe.o.game.gids[d] = probe.gids[d]

\* the call was answered by the cache probe: a cached id was found in the
\* settled results
ResolvedFromCache(o) ==
    /\ ~o.game.raised
    /\ o.game.matched = 0
    /\ o.game.probed # <<>>
    /\ "error" \notin DOMAIN o.game.result

\* C24: a call that is Resolved by a cached event id found in the settled
\* results with periods makes no request to the fixtures endpoint
C24_NoFixturesRequestOnCacheHit ==
    (/\ probe.op = "process_bet"
     /\ probe.o.outcome = "Resolved"
     /\ ResolvedFromCache(probe.o)
     /\ probe.o.game.result.periods # <<>>)
        => probe.o.game.fx = "none"

\* C25: the cache probe goes through the cached ids of the bet until one
\* is settled with periods: a call answered by the probe returns an event
\* with periods, and a call that goes on to the fixture search or ends with
\* an error has asked every cached id
C25_ProbeTriesEveryCachedId ==
    (/\ probe.op = "process_bet"
     /\ ~probe.o.game.raised
     /\ probe.o.game.cached # {})
        => IF ResolvedFromCache(probe.o)
           THEN /\ probe.o.game.result.periods # <<>>
                /\ probe.o.game.result.id
                      = probe.o.game.probed[Len(probe.o.game.probed)]
           ELSE Range(probe.o.game.probed) = probe.o.game.cached

\* the cache values under the key of the bet or under the key of an ordered
\* pair of distinct candidate names
IdsOfBet(bet_info, gids) ==
    LET N == team_names_of(bet_info)
        keys == {BetIdKey(bet_info.id)}
                   \cup {CacheKey(N[i], N[j]) :
                           <<i, j>> \in {p \in (1..Len(N)) \X (1..Len(N)) :
                                            N[p[1]] # N[p[2]]}}
    IN {gids[k] : k \in keys \cap DOMAIN gids}

\* C26: the event ids probed for a bet are cache values stored under the
\* key of that bet or under a pair key of its candidate names, all of them
\* are candidates of the probe, and a call answered by the probe returns
\* one of them
C26_ProbedIdsAreTheBetsOwn ==
    probe.op = "process_bet"
        => LET own == IdsOfBet(probe.bet, probe.gids) IN
           /\ Range(probe.o.game.probed) \subseteq own
           /\ probe.o.game.fx # "none" => probe.o.game.cached = own
           /\ ResolvedFromCache(probe.o) => probe.o.game.result.id \in own

C26_Witness ==
    /\ probe.op = "process_bet"
    /\ probe.bet.id = 1
    /\ BetIdKey(10) \in DOMAIN probe.gids
    /\ BetIdKey(1) \in DOMAIN probe.gids
    /\ probe.gids[BetIdKey(10)] # probe.gids[BetIdKey(1)]
    /\ probe.o.game.probed = <<probe.gids[BetIdKey(1)]>>
    /\ ResolvedFromCache(probe.o)

\* C27: when the fixtures list an event whose id is one of the cached ids
\* of the bet, the event the fixture search returns is such an event
C27_KnownIdMatchedFirst ==
    (/\ probe.op = "process_bet"
     /\ probe.o.game.matched # 0
     /\ probe.o.game.cached \cap probe.o.game.listed # {})
        => probe.o.game.matched \in probe.o.game.cached

\* C29: a call for a bet whose key is in processed_bets makes no request,
\* hands nothing to the sink and leaves the cache, the cursor store, the
\* two files and processed_bets as they were
C29_GuardedBetIsNoOp ==
    (probe.op = "process_bet"
     /\ ProcessedKey(probe.bet) \in probe.processed)
        => /\ ~probe.o.sent
           /\ probe.o.game.fx = "none"
           /\ probe.o.game.probed = <<>>
           /\ probe.o.game.matched = 0
           /\ probe.o.game.gids = probe.gids
           /\ probe.o.game.dgids = probe.gids
           /\ probe.o.game.lv = probe.lv
           /\ probe.o.game.dlv = probe.lv
           /\ probe.o.processed = probe.processed

C29_Witness ==
    /\ probe.op = "process_bet"
    /\ ProcessedKey(probe.bet) \in probe.processed
    /\ BetIdKey(probe.bet.id) \in DOMAIN probe.gids
    /\ probe.lv # EmptyDict
    /\ \E e \in EventIds : probe.st[e] = "full"
    /\ probe.o.outcome = "Skipped"

\* str.split(): the words of a name
RECURSIVE Words(_, _)
Words(s, word) ==
    IF s = <<>> THEN (IF word = <<>> THEN <<>> ELSE <<word>>)
    ELSE IF Head(s) = " "
    THEN (IF word = <<>> THEN <<>> ELSE <<word>>) \o Words(Tail(s), <<>>)
    ELSE Words(Tail(s), Append(word, Head(s)))

IsPrefix(a, b) == Len(a) <= Len(b) /\ SubSeq(b, 1, Len(a)) = a

\* the match of a candidate with a provider name in an NCAA-like league:
\* equal, a prefix, one of the words, or the leading words in order
NcaaMatch(candidate, provider) ==
    LET cw == Words(candidate, <<>>)
        pw == Words(provider, <<>>)
    IN \/ candidate = provider
       \/ IsPrefix(candidate, provider)
       \/ \E i \in 1..Len(pw) : pw[i] = candidate
       \/ Len(cw) > 1 /\ IsPrefix(cw, pw)

\* C28: for a bet of an NCAA-like league a candidate name matches a
\* provider name only if it is equal to it, a prefix of it, one of its
\* words or its leading words; for any other league it matches exactly when
\* one of the two names is a substring of the other
C28_TeamMatchByLeague ==
    probe.op = "match"
        => IF Upper(probe.league) \in NCAA_LEAGUES
           THEN probe.out => NcaaMatch(probe.candidate, probe.provider)
           ELSE probe.out <=> (\/ Contains(probe.provider, probe.candidate)
                               \/ Contains(probe.candidate, probe.provider))

C31_StoredCursorNeverRaises ==
    (/\ probe.op = "poll_after_store"
     /\ ~probe.first_raised
     /\ probe.resp.mode \in {"ok", "request_error"})
        => ~probe.raised

\* C32: a step of the for loop at a bet that is not the last of the list,
\* whatever process_bet did for that bet (an error result or an exception),
\* goes on to the next bet of the same list, unless the process is stopped
\* on request
C32_FullPassOverBets ==
    [][(/\ pc = "bets"
        /\ idx < Len(bets_data)
        /\ <<pc, idx>>' # <<pc, idx>>)
          => \/ pc' = "stopped"
             \/ /\ pc' = "bets"
                /\ bets_data' = bets_data
                /\ idx' = idx + 1]_vars

\* the event the search by names binds a bet to when the fixtures list every
\* game: the first one in the order of the response that passes the test
BoundEvent(bet_info) ==
    LET evs == EventsInOrder(FixtureLeagues)
        hits == {i \in 1..Len(evs) :
                    fixture_event_matches(evs[i], team_names_of(bet_info))}
    IN evs[CHOOSE i \in hits : \A j \in hits : i <= j].id

\* the iteration that resolved the bet and whose message the sink took
ResolvedAndNotified(id) ==
    /\ probe.op = "cycle_call"
    /\ probe.bet = id
    /\ probe.outcome = "Resolved"
    /\ probe.delivered

\* C33: when polling cycles are run again and again, with a provider and a
\* sink that answer again and again, a bet that stays in the source with its
\* team and sport fields and whose event comes to be in the settled results
\* with periods is, at some iteration, Resolved with its message taken by
\* the sink
C33_EventuallyResolvedAndNotified ==
    \A b \in {Bet1, Bet2} :
        ([]<>AtBet(b.id) /\ <>(settled[BoundEvent(map_bet_info(b))] = "full"))
            => <>ResolvedAndNotified(b.id)

\* lines 209-210: the test of one candidate name against one provider name
NameMatch(t, n) == Contains(n, t) \/ Contains(t, n)

\* the two provider names of an event as the fixture loop reads them
ProviderNamesOf(event) == {Lower(event.home), Lower(event.away)}

\* C34: the search by names binds a bet that has both a visitor and a home
\* name to an event, returning or caching its id, only if each of the two
\* names matches one of the two provider names of the event
C34_BothTeamsMustMatch ==
    (/\ probe.op = "bind"
     /\ probe.bet.visitor # <<>> /\ probe.bet.home # <<>>
     /\ probe.bound # {} \/ probe.cached # {})
        => \A t \in {probe.bet.visitor, probe.bet.home} :
              \E n \in ProviderNamesOf(probe.event) : NameMatch(t, n)

\* C35: the search by names binds a bet to an event only if a provider name
\* of the event that is not empty matches one of the candidate names
C35_EmptyProviderNameNeverMatches ==
    (/\ probe.op = "bind"
     /\ probe.bound # {} \/ probe.cached # {})
        => \E n \in ProviderNamesOf(probe.event) :
              /\ n # <<>>
              /\ \E i \in 1..Len(probe.names) : NameMatch(probe.names[i], n)

\* a step of the engine, not of the provider
EngineStep == settled' = settled

\* C36: the step that ends a cycle sets consecutive_errors to zero when the
\* cycle completed and adds exactly one to it when the cycle ended in an
\* exception; the counter does not change inside a cycle; and whenever a
\* cycle starts the counter is below MAX_CONSECUTIVE_ERRORS
C36_ErrorCounter ==
    [][EngineStep =>
        /\ (pc = "bets" /\ pc' \in {"sleep", "exited"})
              => IF last'.outcome = "Raised"
                 THEN consecutive_errors' = consecutive_errors + 1
                 ELSE consecutive_errors' = 0
        /\ (pc = "bets" /\ pc' = "bets")
              => consecutive_errors' = consecutive_errors
        /\ (pc \in {"start", "sleep"} /\ pc' \in {"bets", "sleep"})
              => /\ consecutive_errors < MAX_CONSECUTIVE_ERRORS
                 /\ pc' = "sleep" => consecutive_errors' = 0]_vars

\* C36 witness: a cycle was started after four cycles in a row had ended in
\* an exception
C36_Witness ==
    /\ pc = "bets"
    /\ consecutive_errors = MAX_CONSECUTIVE_ERRORS - 1
    /\ last.outcome = "Raised"

\* C37: a cycle that reads the bet source while it is absent, empty or cut
\* short loads no bets: it ends without a call of process_bet, sends no
\* message, sets consecutive_errors to zero, and leaves both caches (in
\* memory and in the files) and processed_bets as they were
C37_NoCompleteSourceNoBets ==
    [][\A src \in IncompleteReads :
          StartCycle(src)
              => /\ pc' = "sleep"
                 /\ last' = last
                 /\ notified' = notified
                 /\ consecutive_errors' = 0
                 /\ game_ids_cache' = game_ids_cache
                 /\ last_values_cache' = last_values_cache
                 /\ disk_game_ids' = disk_game_ids
                 /\ disk_last_values' = disk_last_values
                 /\ processed_bets' = processed_bets]_vars

\* C37 witness: a cycle has run and ended, and process_bet was never called
C37_Witness ==
    /\ pc = "sleep"
    /\ last = NoCall
    /\ flushed
    /\ NoFile \in IncompleteReads
====
